---- MODULE Spec2Model ----
(***************************************************************************)
(* A model of imapstats (src/main.go): the criteria compiler (toIMAP and   *)
(* mkORclause), the resolution of the statistics of an account/mailbox     *)
(* (getStatsCfg), the cache TTL parser (cacheTTL), the cache-only read     *)
(* (readFromCache) and the live run of main (fetchConfig, fetchStats,      *)
(* dialAndLogin, fetchMails, writeStats) against a remote mailbox whose    *)
(* answers and failures are nondeterministic.                              *)
(*                                                                         *)
(* Representations.                                                        *)
(*  - A statistic name is a sequence of tokens; Go's k+"_messages" is the  *)
(*    name with the token "_messages" appended.  A name is always written  *)
(*    with every trailing "_messages" as a token of its own, so two        *)
(*    sequences are equal exactly when the strings are.                    *)
(*  - map[string]string Headers is a set of <<key, value>> pairs with      *)
(*    unique keys.  textproto.MIMEHeader (imap.SearchCriteria.Header) is a *)
(*    bag of <<canonical key, value>>: the order of the values of one key  *)
(*    follows Go's map iteration order and is left out.                    *)
(*  - A time.Duration or time.Time is [s, ns], s seconds and 0 <= ns <     *)
(*    10^9 nanoseconds (64-bit nanosecond counts do not fit TLC's          *)
(*    integers).                                                           *)
(*  - An error is [kind, wrapped]: kind "timeout" is an error whose        *)
(*    Timeout() method answers true (a net.Error), wrapped says that       *)
(*    fmt.Errorf("%w ...") has wrapped it.                                 *)
(***************************************************************************)
EXTENDS Integers, Sequences, FiniteSets, Bags, TLC

VARIABLES
    flag,        \* the CLI flags: userArg, mboxArg, quietArg, writeCacheArg, readCacheArg, ttlArg
    configFile,  \* the configuration file: [exists, Accounts]
    cfg,         \* config.Accounts as held in memory (getStatsCfg writes to it)
    pc,          \* the position of the process
    err,         \* the error being returned up to main (NoErr when none)
    exitCode,    \* the exit status of the process, Running while it runs
    netLog,      \* the network actions attempted so far, in order
    statsCfg,    \* the statsConfig fetchStats ranges over (the result of getStatsCfg)
    todo,        \* the keys of statsCfg the range loop has not yet visited
    k,           \* the key of the current iteration
    ids,         \* the identifiers the current search returned
    st,          \* the stats map being built by fetchStats
    warnings,    \* the WARN lines logged by fetchMails
    fetched,     \* per statistic, the identifiers requested from c.Fetch
    writers,     \* per key of st, the statistics whose iteration assigned it
    stdout,      \* what the process wrote to standard output
    cacheFile,   \* the cache file: [exists, data, modTime]
    now,         \* time.Now()
    ttl,         \* the value cacheTTL() returned to readFromCache
    cr,          \* the criteriaCfg handed to toIMAP
    query,       \* the result of toIMAP: [panic, sc]
    deferred,    \* whether fetchStats has deferred c.Logout()
    exitVia      \* how the process ended: "return", "fatal", "timeout", "logger", "panic"

vars == <<flag, configFile, cfg, pc, err, exitCode, netLog, statsCfg, todo, k, ids,
          st, warnings, fetched, writers, stdout, cacheFile, now, ttl, cr, query,
          deferred, exitVia>>

\* ---------------------------------------------------------------- bounds

\* The longest OR list of a generated criteriaCfg.
MaxOr == 3

\* The longest -ttl string.
MaxTTLLen == 3

\* How many identifiers beyond maxMailFetchCount a search may return.
MaxExtraIds == 1

\* ------------------------------------------------------- program constants

maxMailFetchCount == 10

exitUnavailable == 69

\* log.Fatalf exits with status 1.
exitFatal == 1

\* An unrecovered panic exits with status 2.
exitPanic == 2

\* exitCode while the process runs.
Running == -1

\* imap.SeenFlag
SeenFlag == "\\Seen"

\* ------------------------------------------------------------ criteriaCfg

criteriaCfg(seen, body, headers, or, fetch) ==
    [Seen |-> seen, Body |-> body, Headers |-> headers, Or |-> or, Fetch |-> fetch]

\* &criteriaCfg{}: the zero value.
plainCriteria == criteriaCfg(FALSE, <<>>, {}, <<>>, FALSE)

\* textproto.CanonicalMIMEHeaderKey on the header names of the model.
CanonicalMIMEHeaderKey(key) ==
    CASE key = "subject" -> "Subject"
      [] key = "from" -> "From"
      [] OTHER -> key

\* imap.NewSearchCriteria(): an empty Header, everything else zero.
NewSearchCriteria ==
    [WithoutFlags |-> <<>>, Body |-> <<>>, Header |-> EmptyBag, Or |-> <<>>]

\* The Header after `for k, v := range cr.Headers { res.Header.Add(k, v) }`:
\* Add appends v to the values of the canonical form of k.
HeaderOf(headers) ==
    LET entry(h) == <<CanonicalMIMEHeaderKey(h[1]), h[2]>>
    IN  [p \in {entry(h) : h \in headers} |->
            Cardinality({h \in headers : entry(h) = p})]

\* The value of a toIMAP or mkORclause call: the criteria, or a panic.
Returned(sc) == [panic |-> FALSE, sc |-> sc]

Panicked == [panic |-> TRUE, sc |-> NewSearchCriteria]

\* An unset [2]*imap.SearchCriteria.
NilPair == <<[nil |-> TRUE], [nil |-> TRUE]>>

RECURSIVE toIMAP(_)
RECURSIVE mkORclause(_, _)

\* A left-leaning chain: the wrapper takes the first place of the pair.
mkORclauseLeftLeaning(sc, or) ==
    IF Len(or) = 0 THEN Returned(sc)
    ELSE IF Len(or) = 1 THEN Panicked
    ELSE IF Len(or) = 2 THEN
        LET a == toIMAP(or[1])
            b == toIMAP(or[2])
        IN  IF a.panic \/ b.panic THEN Panicked
            ELSE Returned([sc EXCEPT !.Or = <<<<a.sc, b.sc>>>>])
    ELSE
        LET a == toIMAP(or[1])
            w == mkORclause(NewSearchCriteria, Tail(or))
        IN  IF a.panic \/ w.panic THEN Panicked
            ELSE Returned([sc EXCEPT !.Or = <<<<w.sc, a.sc>>>>])

mkORclause(sc, or) ==
    IF Len(or) = 0 THEN Returned(sc)
    ELSE IF Len(or) = 1 THEN Panicked
    ELSE IF Len(or) = 2 THEN
        LET a == toIMAP(or[1])
            b == toIMAP(or[2])
            appended == Append(sc.Or, NilPair)
        IN  IF a.panic \/ b.panic THEN Panicked
            ELSE Returned([sc EXCEPT !.Or = [appended EXCEPT ![1] = <<a.sc, b.sc>>]])
    ELSE
        LET a == toIMAP(or[1])
            w == mkORclause(NewSearchCriteria, Tail(or))
            appended == Append(sc.Or, NilPair)
        IN  IF a.panic \/ w.panic THEN Panicked
            ELSE Returned([sc EXCEPT !.Or = [appended EXCEPT ![1] = <<a.sc, w.sc>>]])

toIMAP(c) ==
    mkORclause([NewSearchCriteria EXCEPT
                    !.WithoutFlags = IF ~c.Seen THEN <<SeenFlag>> ELSE <<>>,
                    !.Body = c.Body,
                    !.Header = HeaderOf(c.Headers)],
               c.Or)

\* ------------------------------------------------- the criteria of the model

\* Criteria without OR.
LeafCriteria ==
    { plainCriteria,
      criteriaCfg(TRUE, <<>>, {<<"Subject", "foo">>}, <<>>, FALSE),
      criteriaCfg(FALSE, <<"fuzz">>, {<<"subject", "bar">>, <<"Subject", "bar">>}, <<>>, TRUE) }

\* The sequences over S of length lo..hi.
SeqsOf(S, lo, hi) == UNION {[1..n -> S] : n \in lo..hi}

\* The fields a criterion with OR has beside the OR.
RootFields ==
    { plainCriteria,
      criteriaCfg(TRUE, <<"foo", "bar">>, {<<"From", "boss@bar.com">>}, <<>>, FALSE) }

WithOr(root, or) == [root EXCEPT !.Or = or]

\* Criteria whose branches are leaves.
FlatCriteria ==
    LeafCriteria \cup {WithOr(r, or) : r \in RootFields, or \in SeqsOf(LeafCriteria, 1, MaxOr)}

\* The branches of the nested criteria: leaves and OR nodes of 1, 2 and 3 leaves.
NestedBranches ==
    LET a == plainCriteria
        b == criteriaCfg(TRUE, <<>>, {<<"Subject", "foo">>}, <<>>, FALSE)
    IN  { a, b,
          WithOr(a, <<b>>),
          WithOr(b, <<a, b>>),
          WithOr(a, <<b, a, b>>) }

NestedCriteria ==
    {WithOr(r, or) : r \in RootFields, or \in SeqsOf(NestedBranches, 1, MaxOr)}

CriteriaTrees == FlatCriteria \cup NestedCriteria

\* ----------------------------------------------------------- idle values

NoErr == [kind |-> "nil", wrapped |-> FALSE, path |-> <<>>]

Duration(s, ns) == [s |-> s, ns |-> ns]

NoName == <<>>

FlagsOf(user, mbox, quiet, writeCache, readCache, ttlStr) ==
    [userArg |-> user, mboxArg |-> mbox, quietArg |-> quiet,
     writeCacheArg |-> writeCache, readCacheArg |-> readCache, ttlArg |-> ttlStr]

NoFile == [exists |-> FALSE, data |-> <<>>, modTime |-> Duration(0, 0)]

\* No accounts: the zero value of config.
NoAccounts == [a \in {} |-> [m \in {} |-> <<>>]]

NoStats == [n \in {} |-> 0]

\* The variables of the run of main, before it starts.
RunIdle ==
    /\ err = NoErr
    /\ exitCode = Running
    /\ netLog = <<>>
    /\ statsCfg = NoStats
    /\ todo = {}
    /\ k = NoName
    /\ ids = <<>>
    /\ st = NoStats
    /\ warnings = <<>>
    /\ fetched = NoStats
    /\ writers = NoStats
    /\ stdout = <<>>
    /\ ttl = Duration(0, 0)
    /\ deferred = FALSE
    /\ exitVia = "running"

CompilerIdle ==
    /\ cr = plainCriteria
    /\ query = Returned(NewSearchCriteria)

\* ------------------------------------------------ the compiler on its own

InitCompile ==
    /\ cr \in CriteriaTrees
    /\ query = Returned(NewSearchCriteria)
    /\ pc = "toIMAP"
    /\ flag = FlagsOf("foo@bar.com", "INBOX", FALSE, FALSE, FALSE, <<>>)
    /\ configFile = [exists |-> FALSE, Accounts |-> NoAccounts]
    /\ cfg = NoAccounts
    /\ cacheFile = NoFile
    /\ now = Duration(0, 0)
    /\ RunIdle

\* cr.toIMAP()
Compile ==
    /\ pc = "toIMAP"
    /\ query' = toIMAP(cr)
    /\ pc' = IF toIMAP(cr).panic THEN "panic" ELSE "compiled"
    /\ UNCHANGED <<flag, configFile, cfg, err, exitCode, netLog, statsCfg, todo, k, ids,
                   st, warnings, fetched, writers, stdout, cacheFile, now, ttl, cr,
                   deferred, exitVia>>

NextCompile == Compile

SpecCompile == InitCompile /\ [][NextCompile]_vars

\* Every node of the criterion has 0 or at least 2 OR branches.
RECURSIVE WellFormed(_)
WellFormed(c) ==
    /\ Len(c.Or) # 1
    /\ \A i \in 1..Len(c.Or) : WellFormed(c.Or[i])

\* The OR of sc is the right-leaning chain of the queries qs, Len(qs) >= 2.
RECURSIVE RightFold(_, _)
RightFold(sc, qs) ==
    /\ Len(sc.Or) = 1
    /\ sc.Or[1][1] = qs[1]
    /\ IF Len(qs) = 2 THEN sc.Or[1][2] = qs[2]
       ELSE LET w == sc.Or[1][2]
            IN  /\ w.WithoutFlags = <<>>
                /\ w.Body = <<>>
                /\ w.Header = EmptyBag
                /\ RightFold(w, Tail(qs))

\* sc and the query of every branch below have the unseen restriction the
\* criterion asks for.
RECURSIVE UnseenEverywhere(_, _)
UnseenEverywhere(c, sc) ==
    /\ sc.WithoutFlags = (IF c.Seen THEN <<>> ELSE <<SeenFlag>>)
    /\ \A i \in 1..Len(c.Or) : UnseenEverywhere(c.Or[i], toIMAP(c.Or[i]).sc)

\* C2: a criterion with n >= 2 OR branches, every node of which has 0 or at least
\* 2 branches, compiles without a panic to a query with exactly one OR pair, the
\* right-leaning chain of its compiled branches: (compile(b0), compile(b1)) for
\* n = 2, and (compile(b0), wrap) for n > 2, wrap having no flag, body or header
\* filter of its own and the chain of b1.. as its single OR pair.  The query of
\* every node has the unseen restriction unless the node sets Seen.
C2_RightFoldChain ==
    (pc # "toIMAP" /\ WellFormed(cr) /\ Len(cr.Or) >= 2) =>
        /\ ~query.panic
        /\ RightFold(query.sc, [i \in 1..Len(cr.Or) |-> toIMAP(cr.Or[i]).sc])
        /\ UnseenEverywhere(cr, query.sc)

\* A compiled criterion of three branches, one of them an OR of its own.
C2_Witness ==
    /\ pc = "compiled"
    /\ WellFormed(cr)
    /\ Len(cr.Or) = 3
    /\ ~cr.Seen
    /\ \E i \in 1..3 : Len(cr.Or[i].Or) >= 2
    /\ \E i \in 1..3 : cr.Or[i].Seen

\* ------------------------------------------------------------ getStatsCfg

UnseenCount == <<"unseen_count">>

Users == {"foo@bar.com", "other@bar.com"}

Mailboxes == {"INBOX", "Spam"}

importantCriteria == criteriaCfg(FALSE, <<>>, {<<"From", "boss@bar.com">>}, <<>>, FALSE)

seenCriteria == criteriaCfg(TRUE, <<>>, {}, <<>>, FALSE)

\* The statsConfig values of the configurations getStatsCfg is tried on.
ResolveStatsConfigs ==
    { NoStats,
      <<"important_count">> :> importantCriteria,
      UnseenCount :> seenCriteria,
      (<<"important_count">> :> importantCriteria) @@ (UnseenCount :> seenCriteria) }

\* The functions from a subset of D to R.
PartialFunctions(D, R) == UNION {[d -> R] : d \in SUBSET D}

ResolveAccounts == PartialFunctions(Users, PartialFunctions(Mailboxes, ResolveStatsConfigs))

\* getStatsCfg with the default entry assigned whether or not one is configured.
getStatsCfgOverwriting(accounts, user, mailBox) ==
    LET defaultCfg == UnseenCount :> plainCriteria
    IN  IF user \notin DOMAIN accounts \/ mailBox \notin DOMAIN accounts[user]
        THEN [ret |-> defaultCfg, Accounts |-> accounts]
        ELSE LET set == defaultCfg @@ accounts[user][mailBox]
             IN  [ret |-> set, Accounts |-> [accounts EXCEPT ![user][mailBox] = set]]

\* c.getStatsCfg(user, mailBox): what it returns and c.Accounts after it.  A key
\* a map does not hold reads as nil; the map of a mailbox is shared with
\* c.Accounts, so the default entry is written into the configuration.
getStatsCfg(accounts, user, mailBox) ==
    LET defaultCfg == UnseenCount :> plainCriteria
    IN  IF user \notin DOMAIN accounts
        THEN [ret |-> defaultCfg, Accounts |-> accounts]
        ELSE IF mailBox \notin DOMAIN accounts[user]
        THEN [ret |-> defaultCfg, Accounts |-> accounts]
        ELSE IF UnseenCount \notin DOMAIN accounts[user][mailBox]
        THEN LET set == accounts[user][mailBox] @@ defaultCfg
             IN  [ret |-> set, Accounts |-> [accounts EXCEPT ![user][mailBox] = set]]
        ELSE [ret |-> accounts[user][mailBox], Accounts |-> accounts]

InitResolve ==
    /\ configFile \in {[exists |-> TRUE, Accounts |-> a] : a \in ResolveAccounts}
    /\ cfg = configFile.Accounts
    /\ flag \in {FlagsOf(u, m, FALSE, FALSE, FALSE, <<>>) : u \in Users, m \in Mailboxes}
    /\ pc = "getStatsCfg"
    /\ cacheFile = NoFile
    /\ now = Duration(0, 0)
    /\ RunIdle
    /\ CompilerIdle

\* fetchStats, line 252: the range expression cfg.getStatsCfg(*userArg, *mboxArg)
\* is evaluated once, before the first iteration.
Resolve ==
    /\ pc = "getStatsCfg"
    /\ LET r == getStatsCfg(cfg, flag.userArg, flag.mboxArg)
       IN  /\ statsCfg' = r.ret
           /\ cfg' = r.Accounts
    /\ pc' = "range"
    /\ todo' = DOMAIN getStatsCfg(cfg, flag.userArg, flag.mboxArg).ret
    /\ UNCHANGED <<flag, configFile, err, exitCode, netLog, k, ids, st, warnings,
                   fetched, writers, stdout, cacheFile, now, ttl, cr, query,
                   deferred, exitVia>>

NextResolve == Resolve

SpecResolve == InitResolve /\ [][NextResolve]_vars

\* What the configuration file sets for the pair of the flags: no statistic when
\* the account or the mailbox is unknown.
Configured ==
    IF flag.userArg \in DOMAIN configFile.Accounts
       /\ flag.mboxArg \in DOMAIN configFile.Accounts[flag.userArg]
    THEN configFile.Accounts[flag.userArg][flag.mboxArg]
    ELSE NoStats

\* C3: the statsConfig getStatsCfg returns holds "unseen_count"; it is the plain
\* criterion when the configuration sets none for the pair; every statistic the
\* configuration sets for the pair, "unseen_count" included, is returned as set;
\* for an unknown account or mailbox the result is exactly {"unseen_count": plain}.
C3_DefaultInjection ==
    pc = "range" =>
        /\ UnseenCount \in DOMAIN statsCfg
        /\ UnseenCount \notin DOMAIN Configured => statsCfg[UnseenCount] = plainCriteria
        /\ \A n \in DOMAIN Configured : n \in DOMAIN statsCfg /\ statsCfg[n] = Configured[n]
        /\ (flag.userArg \notin DOMAIN configFile.Accounts
            \/ flag.mboxArg \notin DOMAIN configFile.Accounts[flag.userArg])
           => statsCfg = (UnseenCount :> plainCriteria)

\* Resolved with "important_count" configured and no "unseen_count".
C3_Witness ==
    /\ pc = "range"
    /\ DOMAIN Configured = {<<"important_count">>}
    /\ DOMAIN statsCfg = {<<"important_count">>, UnseenCount}

\* ------------------------------------------------------ time and durations

\* The sum and the difference of two [s, ns] values, normalised.
DurationAdd(a, b) ==
    IF a.ns + b.ns >= 1000000000
    THEN Duration(a.s + b.s + 1, a.ns + b.ns - 1000000000)
    ELSE Duration(a.s + b.s, a.ns + b.ns)

\* t.Sub(u)
DurationSub(t, u) ==
    IF t.ns - u.ns < 0
    THEN Duration(t.s - u.s - 1, t.ns - u.ns + 1000000000)
    ELSE Duration(t.s - u.s, t.ns - u.ns)

\* a > b on time.Duration
DurationGT(a, b) == a.s > b.s \/ (a.s = b.s /\ a.ns > b.ns)

\* ttlInfinite time.Duration = -1: minus one nanosecond.
ttlInfinite == Duration(-1, 999999999)

\* ---------------------------------------------------------------- cacheTTL

Digits == {"0", "1", "2", "3", "4", "5", "6", "7", "8", "9"}

DigitValue(c) ==
    CASE c = "0" -> 0 [] c = "1" -> 1 [] c = "2" -> 2 [] c = "3" -> 3 [] c = "4" -> 4
      [] c = "5" -> 5 [] c = "6" -> 6 [] c = "7" -> 7 [] c = "8" -> 8 [] c = "9" -> 9

\* strconv.ParseInt(str, 10, 64): an optional sign, then one digit or more, read
\* from the left.  The strings of the model are too short to leave the range of
\* int64.
RECURSIVE ParseUint(_, _)
ParseUint(str, acc) ==
    IF str = <<>> THEN acc ELSE ParseUint(Tail(str), acc * 10 + DigitValue(Head(str)))

ParseInt(str) ==
    LET signed == str # <<>> /\ Head(str) \in {"+", "-"}
        digits == IF signed THEN Tail(str) ELSE str
    IN  IF digits = <<>> \/ \E i \in 1..Len(digits) : digits[i] \notin Digits
        THEN [ok |-> FALSE, val |-> 0]
        ELSE [ok |-> TRUE,
              val |-> IF signed /\ Head(str) = "-" THEN -ParseUint(digits, 0)
                      ELSE ParseUint(digits, 0)]

\* The units map, in seconds.
units == [s |-> 1, m |-> 60, h |-> 3600]

\* cacheTTL with no unit stripped: every value counts seconds.
cacheTTLSecondsOnly(val) ==
    IF val = <<>> THEN ttlInfinite
    ELSE IF ParseInt(val).ok THEN Duration(ParseInt(val).val, 0) ELSE ttlInfinite

\* cacheTTL(), val being *ttlArg.  The keys of units are single characters, so at
\* most one of them is a suffix of val and the order of the range does not matter.
cacheTTL(val) ==
    IF val = <<>> THEN ttlInfinite
    ELSE LET last == val[Len(val)]
             hasUnit == last \in DOMAIN units
             unit == IF hasUnit THEN units[last] ELSE units["s"]
             stripped == IF hasUnit THEN SubSeq(val, 1, Len(val) - 1) ELSE val
             parsed == ParseInt(stripped)
         IN  IF ~parsed.ok THEN ttlInfinite ELSE Duration(parsed.val * unit, 0)

\* ------------------------------------------------------------ readFromCache

\* filepath.Join(cacheDir, *userArg+"."+*mboxArg)
cacheFilename(f) == <<"cacheDir", f.userArg, ".", f.mboxArg>>

ErrNotExist(path, wrapped) == [kind |-> "ErrNotExist", wrapped |-> wrapped, path |-> path]

\* readFromCache with the age compared by >=.
readFromCacheStaleAtTTL(f, file, clock) ==
    LET age == DurationSub(clock, file.modTime)
        t == cacheTTL(f.ttlArg)
    IN  IF ~file.exists
        THEN [err |-> ErrNotExist(cacheFilename(f), FALSE), out |-> <<>>, ttl |-> Duration(0, 0)]
        ELSE IF t # ttlInfinite /\ ~DurationGT(t, age)
        THEN [err |-> ErrNotExist(cacheFilename(f), TRUE), out |-> <<>>, ttl |-> t]
        ELSE [err |-> NoErr, out |-> <<file.data>>, ttl |-> t]

\* readFromCache(): the error it returns, what io.Copy writes to os.Stdout and
\* the value of cacheTTL().  os.Stat fails with a *PathError of ENOENT on a
\* missing file; the stale file is reported by an error wrapping os.ErrNotExist
\* and naming the file.  A file that exists can be opened and read.
readFromCache(f, file, clock) ==
    LET age == DurationSub(clock, file.modTime)
        t == cacheTTL(f.ttlArg)
    IN  IF ~file.exists
        THEN [err |-> ErrNotExist(cacheFilename(f), FALSE), out |-> <<>>, ttl |-> Duration(0, 0)]
        ELSE IF t # ttlInfinite /\ DurationGT(age, t)
        THEN [err |-> ErrNotExist(cacheFilename(f), TRUE), out |-> <<>>, ttl |-> t]
        ELSE [err |-> NoErr, out |-> <<file.data>>, ttl |-> t]

\* The characters of the -ttl strings of the model.
TTLChars == {"0", "1", "+", "-", "s", "m", "h", "x"}

TTLStrings == SeqsOf(TTLChars, 0, MaxTTLLen)

\* The modification time of a cache file written by an earlier run.
OldModTime == Duration(5000, 0)

\* The statistics an earlier run cached.
OldCache ==
    [exists |-> TRUE, data |-> <<"json", UnseenCount :> [int |-> 7, letters |-> <<>>]>>,
     modTime |-> OldModTime]

\* A cache file that holds no JSON.
GarbledCache == [exists |-> TRUE, data |-> <<"garbage", NoStats>>, modTime |-> OldModTime]

\* The ages of the cache file at the read: around 0 s, 1 s, 10 s, 1 m and 1 h, one
\* nanosecond less, exactly, and one nanosecond more.
CacheAges ==
    {DurationSub(DurationAdd(Duration(sec, 0), Duration(0, d)), Duration(0, 1)) :
        sec \in {0, 1, 10, 60, 3600}, d \in 0..2}

InitReadCache ==
    /\ flag \in {FlagsOf("foo@bar.com", "INBOX", FALSE, FALSE, TRUE, t) : t \in TTLStrings}
    /\ \/ /\ cacheFile = NoFile
          /\ now = OldModTime
       \/ /\ cacheFile \in {OldCache, GarbledCache}
          /\ now \in {DurationAdd(OldModTime, a) : a \in CacheAges}
    /\ configFile = [exists |-> FALSE, Accounts |-> NoAccounts]
    /\ cfg = NoAccounts
    /\ pc = "main"
    /\ RunIdle
    /\ CompilerIdle

\* main with -read-cache: must(readFromCache()); return
MainReadCache ==
    /\ pc = "main"
    /\ flag.readCacheArg
    /\ LET r == readFromCache(flag, cacheFile, now)
       IN  /\ err' = r.err
           /\ stdout' = stdout \o r.out
           /\ ttl' = r.ttl
           /\ exitCode' = IF r.err # NoErr THEN exitFatal ELSE 0
           /\ exitVia' = IF r.err # NoErr THEN "fatal" ELSE "return"
    /\ pc' = "exit"
    /\ UNCHANGED <<flag, configFile, cfg, netLog, statsCfg, todo, k, ids, st, warnings,
                   fetched, writers, cacheFile, now, cr, query, deferred>>

\* ------------------------------------------------------------------ errors

\* What the mailbox client returns when an operation fails: a network timeout
\* (an error with a Timeout method answering true) or another error.
TimeoutErr == [kind |-> "timeout", wrapped |-> FALSE, path |-> <<>>]

OtherErr == [kind |-> "other", wrapped |-> FALSE, path |-> <<>>]

LibErrors == {TimeoutErr, OtherErr}

ConfigErr == [kind |-> "config", wrapped |-> FALSE, path |-> <<>>]

PasswordErr == [kind |-> "password", wrapped |-> FALSE, path |-> <<>>]

\* fmt.Errorf("%w %T", err, err): a *fmt.wrapError around err.
Errorf(e) == [e EXCEPT !.wrapped = TRUE]

\* os.IsTimeout(err): err itself (under a PathError, LinkError or SyscallError)
\* must have the Timeout method; a *fmt.wrapError has none and is not unwrapped.
IsTimeout(e) == e.kind = "timeout" /\ ~e.wrapped

\* dieIf with the error dropped.
dieIfNever(e) == FALSE

\* dieIf(err) ends the process: err != nil.
dieIf(e) == e # NoErr

\* The deferred call forgotten.
ReturnWithoutDefer(d) == "main304"

\* Where control goes when fetchStats returns or panics: through the deferred
\* c.Logout() once line 248 has run, else straight back to main, line 304.
Return(d) == IF d THEN "logout" ELSE "main304"

\* ------------------------------------------------------------- fetchConfig

\* c.validate() = nil: no statistic has a criterion whose own Or has length 1.
validate(accounts) ==
    \A a \in DOMAIN accounts : \A m \in DOMAIN accounts[a] :
        \A n \in DOMAIN accounts[a][m] : Len(accounts[a][m][n].Or) # 1

\* -------------------------------------------------------------- fetchMails

\* m.Envelope of the message with sequence number id, as a letter:
\* Date.Format(time.RFC3339) and Subject.
letter(id) == [Date |-> <<"RFC3339", id>>, Subject |-> <<"subject", id>>]

RECURSIVE Ascending(_)
\* The numbers of a set in ascending order: the order a server answers a
\* sequence set in.
Ascending(S) ==
    IF S = {} THEN <<>>
    ELSE LET lo == CHOOSE x \in S : \A y \in S : x <= y
         IN  <<lo>> \o Ascending(S \ {lo})

\* fetchMails without the cut.
truncateNever(found) == found

\* ids[0:maxMailFetchCount] when len(ids) > maxMailFetchCount, else ids.
truncate(found) ==
    IF Len(found) > maxMailFetchCount THEN SubSeq(found, 1, maxMailFetchCount) ELSE found

\* The WARN line of fetchMails.
warning(name, found) == [name |-> name, found |-> found, fetch |-> maxMailFetchCount]

\* k+"_messages"
messagesKey(name) == Append(name, "_messages")

IntStat(n) == [int |-> n, letters |-> <<>>]

LettersStat(ls) == [int |-> -1, letters |-> ls]

\* st[key] = val
Assign(m, key, val) == (key :> val) @@ m

\* The iteration of statistic name has assigned st[key].
AddWriter(w, key, name) ==
    (key :> ((IF key \in DOMAIN w THEN w[key] ELSE {}) \cup {name})) @@ w

\* What a search may return: 0 to maxMailFetchCount + MaxExtraIds identifiers,
\* ascending or descending.
SearchResults ==
    UNION {{[i \in 1..n |-> i], [i \in 1..n |-> n + 1 - i]} :
              n \in 0..(maxMailFetchCount + MaxExtraIds)}

\* json.NewEncoder(w).Encode(st)
Encode(m) == <<"json", m>>

\* ------------------------------------------------------------ the live run

badLeaf == criteriaCfg(TRUE, <<>>, {<<"Subject", "foo">>}, <<>>, FALSE)

fetchCriteria == criteriaCfg(FALSE, <<>>, {}, <<>>, TRUE)

AccountsOf(user, stats) == user :> ("INBOX" :> stats)

\* The configurations of the live runs.
LiveAccounts ==
    { NoAccounts,
      AccountsOf("foo@bar.com", <<"important_count">> :> importantCriteria),
      AccountsOf("foo@bar.com", UnseenCount :> fetchCriteria),
      AccountsOf("foo@bar.com",
          (UnseenCount :> fetchCriteria) @@ (messagesKey(UnseenCount) :> seenCriteria)),
      AccountsOf("foo@bar.com",
          UnseenCount :> WithOr(fetchCriteria, <<plainCriteria, badLeaf, importantCriteria>>)),
      AccountsOf("foo@bar.com", UnseenCount :> WithOr(plainCriteria, <<badLeaf>>)),
      AccountsOf("other@bar.com", UnseenCount :> WithOr(plainCriteria, <<badLeaf>>)),
      AccountsOf("foo@bar.com",
          <<"important_count">> :>
              WithOr(plainCriteria, <<badLeaf, WithOr(plainCriteria, <<badLeaf>>)>>)) }

InitLive ==
    /\ flag \in {FlagsOf("foo@bar.com", "INBOX", q, w, FALSE, <<>>) : q \in BOOLEAN, w \in BOOLEAN}
    /\ configFile \in {[exists |-> FALSE, Accounts |-> NoAccounts]}
                      \cup {[exists |-> TRUE, Accounts |-> a] : a \in LiveAccounts}
    /\ cfg = NoAccounts
    /\ cacheFile \in {NoFile, OldCache}
    /\ now = DurationAdd(OldModTime, Duration(60, 0))
    /\ pc = "main"
    /\ RunIdle
    /\ CompilerIdle

Init == InitReadCache \/ InitLive

\* The process ends.
Exit(code, via) ==
    /\ exitCode' = code
    /\ exitVia' = via
    /\ pc' = "exit"

\* return nil, e
ReturnErr(e) ==
    /\ err' = e
    /\ pc' = Return(deferred)
    /\ UNCHANGED <<exitCode, exitVia>>

\* nwTimeoutFatalLogger: the client reports a network timeout to c.ErrorLog
\* and dieOnNetworkTimeout ends the process; no deferred call runs.
LoggerDies == Exit(exitUnavailable, "logger")

\* main without -read-cache, lines 302-303: fetchConfig and dieIf.  A missing
\* file gives the empty config; a file that fails validate is fatal.
FetchConfig ==
    /\ pc = "main"
    /\ ~flag.readCacheArg
    /\ IF ~configFile.exists
       THEN /\ cfg' = NoAccounts
            /\ pc' = "readPassword"
            /\ UNCHANGED <<err, exitCode, exitVia>>
       ELSE IF ~validate(configFile.Accounts)
       THEN /\ err' = ConfigErr
            /\ Exit(exitFatal, "fatal")
            /\ UNCHANGED cfg
       ELSE /\ cfg' = configFile.Accounts
            /\ pc' = "readPassword"
            /\ UNCHANGED <<err, exitCode, exitVia>>
    /\ UNCHANGED <<flag, configFile, netLog, statsCfg, todo, k, ids, st, warnings, fetched,
                   writers, stdout, cacheFile, now, ttl, cr, query, deferred>>

\* fetchStats, lines 240-243: readPassword; the password file may be unreadable.
ReadPassword ==
    /\ pc = "readPassword"
    /\ \/ /\ pc' = "dial"
          /\ UNCHANGED <<err, exitCode, exitVia>>
       \/ ReturnErr(PasswordErr)
    /\ UNCHANGED <<flag, configFile, cfg, netLog, statsCfg, todo, k, ids, st, warnings,
                   fetched, writers, stdout, cacheFile, now, ttl, cr, query, deferred>>

\* dialAndLogin, lines 191-195: client.DialWithDialerTLS.
Dial ==
    /\ pc = "dial"
    /\ netLog' = Append(netLog, "dial")
    /\ \/ /\ pc' = "login"
          /\ UNCHANGED <<err, exitCode, exitVia>>
       \/ \E e \in LibErrors : ReturnErr(e)
    /\ UNCHANGED <<flag, configFile, cfg, statsCfg, todo, k, ids, st, warnings, fetched,
                   writers, stdout, cacheFile, now, ttl, cr, query, deferred>>

\* dialAndLogin, lines 201-205: the logger is set, then c.Login.
Login ==
    /\ pc = "login"
    /\ netLog' = Append(netLog, "login")
    /\ \/ /\ pc' = "select"
          /\ UNCHANGED <<err, exitCode, exitVia>>
       \/ \E e \in LibErrors : ReturnErr(e)
       \/ LoggerDies /\ UNCHANGED err
    /\ UNCHANGED <<flag, configFile, cfg, statsCfg, todo, k, ids, st, warnings, fetched,
                   writers, stdout, cacheFile, now, ttl, cr, query, deferred>>

\* dialAndLogin, lines 206-209, and fetchStats, lines 248-249: c.Select, then
\* defer c.Logout() and st := stats{}.
Select ==
    /\ pc = "select"
    /\ netLog' = Append(netLog, "select")
    /\ \/ /\ pc' = "getStatsCfg"
          /\ deferred' = TRUE
          /\ UNCHANGED <<err, exitCode, exitVia>>
       \/ (\E e \in LibErrors : ReturnErr(e)) /\ UNCHANGED deferred
       \/ LoggerDies /\ UNCHANGED <<err, deferred>>
    /\ UNCHANGED <<flag, configFile, cfg, statsCfg, todo, k, ids, st, warnings, fetched,
                   writers, stdout, cacheFile, now, ttl, cr, query>>

\* fetchStats, lines 252-257 and 272-274: one iteration of the range over the
\* statsConfig, in the order Go's map iteration happens to take: cr.toIMAP(),
\* which may panic, then c.Search.  A panic unwinds through the deferred
\* c.Logout(); an error is returned through it.
Search ==
    /\ pc = "range"
    /\ \E key \in todo :
        /\ k' = key
        /\ todo' = todo \ {key}
        /\ cr' = statsCfg[key]
        /\ query' = toIMAP(statsCfg[key])
        /\ IF toIMAP(statsCfg[key]).panic
           THEN /\ pc' = Return(deferred)
                /\ UNCHANGED <<netLog, ids, st, writers, err, exitCode, exitVia>>
           ELSE /\ netLog' = Append(netLog, "search")
                /\ \/ \E found \in SearchResults :
                        /\ ids' = found
                        /\ st' = Assign(st, key, IntStat(Len(found)))
                        /\ writers' = AddWriter(writers, key, key)
                        /\ pc' = IF statsCfg[key].Fetch THEN "fetchMails" ELSE "range"
                        /\ UNCHANGED <<err, exitCode, exitVia>>
                   \/ \E e \in LibErrors :
                        /\ ReturnErr(e)
                        /\ ids' = <<>>
                        /\ UNCHANGED <<st, writers>>
                   \/ LoggerDies /\ UNCHANGED <<err, ids, st, writers>>
    /\ UNCHANGED <<flag, configFile, cfg, statsCfg, warnings, fetched, stdout, cacheFile,
                   now, ttl, deferred>>

\* fetchStats, lines 258-272, with fetchMails, lines 212-237: the envelopes of
\* the statistic k whose criterion sets Fetch.  The server answers the request
\* with one message per identifier asked for, but for one that may have gone
\* since the search, or the fetch fails.
FetchMails ==
    /\ pc = "fetchMails"
    /\ IF Len(ids) < 1
       THEN /\ st' = Assign(st, messagesKey(k), LettersStat(<<>>))
            /\ writers' = AddWriter(writers, messagesKey(k), k)
            /\ pc' = "range"
            /\ UNCHANGED <<netLog, warnings, fetched, err, exitCode, exitVia>>
       ELSE LET asked == {truncate(ids)[i] : i \in 1..Len(truncate(ids))}
            IN  /\ warnings' = IF Len(ids) > maxMailFetchCount
                               THEN Append(warnings, warning(k, Len(ids)))
                               ELSE warnings
                /\ fetched' = Assign(fetched, k, asked)
                /\ netLog' = Append(netLog, "fetch")
                /\ \/ \E gone \in {{}} \cup {{id} : id \in asked} :
                        LET messages == Ascending(asked \ gone)
                        IN  /\ st' = Assign(st, messagesKey(k),
                                      LettersStat([i \in 1..Len(messages) |-> letter(messages[i])]))
                            /\ writers' = AddWriter(writers, messagesKey(k), k)
                            /\ pc' = "range"
                            /\ UNCHANGED <<err, exitCode, exitVia>>
                   \/ \E e \in LibErrors :
                        /\ ReturnErr(Errorf(e))
                        /\ UNCHANGED <<st, writers>>
                   \/ LoggerDies /\ UNCHANGED <<err, st, writers>>
    /\ UNCHANGED <<flag, configFile, cfg, statsCfg, todo, k, ids, stdout, cacheFile, now,
                   ttl, cr, query, deferred>>

\* fetchStats, line 274: the range is over; return st, nil.
RangeDone ==
    /\ pc = "range"
    /\ todo = {}
    /\ pc' = Return(deferred)
    /\ UNCHANGED <<flag, configFile, cfg, err, exitCode, netLog, statsCfg, todo, k, ids, st,
                   warnings, fetched, writers, stdout, cacheFile, now, ttl, cr, query,
                   deferred, exitVia>>

\* The deferred c.Logout(), run when fetchStats returns or panics; what it
\* returns is dropped.
Logout ==
    /\ pc = "logout"
    /\ netLog' = Append(netLog, "logout")
    /\ \/ LoggerDies
       \/ pc' = "main304" /\ UNCHANGED <<exitCode, exitVia>>
    /\ UNCHANGED <<flag, configFile, cfg, err, statsCfg, todo, k, ids, st, warnings, fetched,
                   writers, stdout, cacheFile, now, ttl, cr, query, deferred>>

\* main, lines 304-306, once fetchStats is over: a panic of toIMAP crashes the
\* process; dieOnNetworkTimeout(err) and dieIf(err) end it on an error.
MainAfterFetch ==
    /\ pc = "main304"
    /\ IF query.panic THEN Exit(exitPanic, "panic")
       ELSE IF IsTimeout(err) THEN Exit(exitUnavailable, "timeout")
       ELSE IF dieIf(err) THEN Exit(exitFatal, "fatal")
       ELSE pc' = "writeStats" /\ UNCHANGED <<exitCode, exitVia>>
    /\ UNCHANGED <<flag, configFile, cfg, err, netLog, statsCfg, todo, k, ids, st, warnings,
                   fetched, writers, stdout, cacheFile, now, ttl, cr, query, deferred>>

\* main, line 308: must(writeStats(st)); os.Create and the encoding succeed.
WriteStats ==
    /\ pc = "writeStats"
    /\ IF flag.writeCacheArg
       THEN /\ cacheFile' = [exists |-> TRUE, data |-> Encode(st), modTime |-> now]
            /\ stdout' = IF flag.quietArg THEN stdout ELSE Append(stdout, Encode(st))
       ELSE /\ stdout' = Append(stdout, Encode(st))
            /\ UNCHANGED cacheFile
    /\ Exit(0, "return")
    /\ UNCHANGED <<flag, configFile, cfg, err, netLog, statsCfg, todo, k, ids, st, warnings,
                   fetched, writers, now, ttl, cr, query, deferred>>

Next ==
    \/ MainReadCache
    \/ FetchConfig
    \/ ReadPassword
    \/ Dial
    \/ Login
    \/ Select
    \/ Resolve
    \/ Search
    \/ FetchMails
    \/ RangeDone
    \/ Logout
    \/ MainAfterFetch
    \/ WriteStats

Spec == Init /\ [][Next]_vars

\* ------------------------------------------------------------- properties

InLog(action) == \E i \in 1..Len(netLog) : netLog[i] = action

RECURSIVE HasSingleOr(_)
\* The criterion or one nested in its Or, at any depth, has an Or of length 1.
HasSingleOr(c) == Len(c.Or) = 1 \/ \E i \in 1..Len(c.Or) : HasSingleOr(c.Or[i])

SingleOrConfigured ==
    \E a \in DOMAIN configFile.Accounts : \E m \in DOMAIN configFile.Accounts[a] :
        \E n \in DOMAIN configFile.Accounts[a][m] : HasSingleOr(configFile.Accounts[a][m][n])

\* C1: when a criterion of the configuration, a statistic's own or one nested at
\* any depth in its Or, has an Or of length 1, the live run attempts no network
\* action and ends with the configuration error.
C1_SingleOrFailsBeforeNetwork ==
    (~flag.readCacheArg /\ configFile.exists /\ SingleOrConfigured) =>
        /\ netLog = <<>>
        /\ pc = "exit" => (err = ConfigErr /\ exitVia = "fatal")

\* C4: the cache-only read fails, with the not-found kind of error, exactly when
\* the cache file is absent or a finite TTL is set and the age of the file
\* exceeds it; the error of a stale file names the file.  Otherwise it succeeds
\* and standard output holds exactly the bytes of the file.  No network action
\* is attempted.
C4_CacheRead ==
    (flag.readCacheArg /\ pc = "exit") =>
        LET t == cacheTTL(flag.ttlArg)
            age == DurationSub(now, cacheFile.modTime)
            stale == cacheFile.exists /\ t # ttlInfinite /\ DurationGT(age, t)
        IN  /\ netLog = <<>>
            /\ (~cacheFile.exists \/ stale) =>
                  /\ err.kind = "ErrNotExist"
                  /\ exitCode = exitFatal
                  /\ stdout = <<>>
            /\ stale => err.path = cacheFilename(flag)
            /\ ~(~cacheFile.exists \/ stale) =>
                  /\ err = NoErr
                  /\ exitCode = 0
                  /\ stdout = <<cacheFile.data>>

\* A read that succeeds at the very age the TTL allows, and one that fails one
\* nanosecond later.
C4_Witness ==
    /\ flag.readCacheArg
    /\ pc = "exit"
    /\ cacheFile.exists
    /\ flag.ttlArg = <<"1", "m">>
    /\ DurationSub(now, cacheFile.modTime) = Duration(60, 0)
    /\ stdout = <<cacheFile.data>>

DigitChar(d) == <<"0", "1", "2", "3", "4", "5", "6", "7", "8", "9">>[d + 1]

RECURSIVE Itoa(_)
\* The decimal numeral of a natural number.
Itoa(n) == IF n < 10 THEN <<DigitChar(n)>> ELSE Append(Itoa(n \div 10), DigitChar(n % 10))

RECURSIVE StripZeros(_)
\* A digit string without its leading zeros, "0" for zero.
StripZeros(ds) == IF Len(ds) > 1 /\ Head(ds) = "0" THEN StripZeros(Tail(ds)) ELSE ds

\* An optional sign and at least one digit, nothing else.
IsIntegerString(str) ==
    LET ds == IF str # <<>> /\ Head(str) \in {"+", "-"} THEN Tail(str) ELSE str
    IN  ds # <<>> /\ \A i \in 1..Len(ds) : ds[i] \in Digits

\* The duration is n whole units of unitSeconds seconds, n the integer str spells.
Spells(str, d, unitSeconds) ==
    LET negative == Head(str) = "-"
        ds == IF Head(str) \in {"+", "-"} THEN Tail(str) ELSE str
        n == d.s \div unitSeconds
    IN  /\ d.ns = 0
        /\ d.s % unitSeconds = 0
        /\ IF negative THEN n <= 0 ELSE n >= 0
        /\ Itoa(IF n < 0 THEN -n ELSE n) = StripZeros(ds)

\* C5: cacheTTL gives the infinite TTL for the empty string; n seconds for an
\* integer n; n seconds, minutes or hours for an integer n followed by one s, m
\* or h; the infinite TTL when what is left after stripping at most one such
\* suffix is no integer.  The infinite TTL is not the zero TTL and is never the
\* value of a string that parses.
C5_CacheTTL ==
    (flag.readCacheArg /\ pc = "exit" /\ cacheFile.exists) =>
        LET v == flag.ttlArg
            suffixed == v # <<>> /\ v[Len(v)] \in {"s", "m", "h"}
            rest == IF suffixed THEN SubSeq(v, 1, Len(v) - 1) ELSE v
            unitSeconds == IF ~suffixed THEN 1
                           ELSE CASE v[Len(v)] = "s" -> 1
                                  [] v[Len(v)] = "m" -> 60
                                  [] v[Len(v)] = "h" -> 3600
        IN  /\ v = <<>> => ttl = ttlInfinite
            /\ IsIntegerString(rest) => (ttl # ttlInfinite /\ Spells(rest, ttl, unitSeconds))
            /\ ~IsIntegerString(rest) => ttl = ttlInfinite
            /\ ttlInfinite # Duration(0, 0)

\* "-11m" has been read as minus 660 seconds.
C5_Witness ==
    /\ flag.readCacheArg
    /\ pc = "exit"
    /\ cacheFile.exists
    /\ flag.ttlArg = <<"-", "1", "m">>
    /\ ttl = Duration(-60, 0)

\* C6: a statistics result is all or nothing.  Once a search or fetch has
\* failed, no further statistic is evaluated and nothing is written to standard
\* output or to the cache file, and the run ends with that error and a status
\* other than 0; standard output and the cache file are written only when every
\* statistic of the statsConfig has been evaluated without an error, and then
\* with the encoding of the whole result.
C6_AllOrNothing ==
    /\ [](~flag.readCacheArg =>
            /\ err # NoErr => (stdout = <<>> /\ cacheFile \in {NoFile, OldCache})
            /\ (pc = "exit" /\ err # NoErr) => exitCode # 0)
    /\ [][~flag.readCacheArg =>
            /\ err # NoErr =>
                  /\ stdout' = stdout
                  /\ cacheFile' = cacheFile
                  /\ st' = st
                  /\ todo' = todo
                  /\ err' = err
                  /\ netLog' \in {netLog, Append(netLog, "logout")}
            /\ (stdout' # stdout \/ cacheFile' # cacheFile) =>
                  /\ err = NoErr
                  /\ todo = {}
                  /\ DOMAIN statsCfg \subseteq DOMAIN st
                  /\ stdout' \in {stdout, <<Encode(st)>>}
                  /\ cacheFile' = cacheFile \/ cacheFile'.data = Encode(st)]_vars

\* The fetch of the second of two statistics has failed after the count of the
\* first was recorded, and the run has ended with nothing written.
C6_Witness ==
    /\ pc = "exit"
    /\ err = Errorf(OtherErr)
    /\ DOMAIN st # {}
    /\ flag.writeCacheArg
    /\ cacheFile = OldCache
    /\ stdout = <<>>

\* C7: a failure that is or wraps a network timeout ends the process with the
\* status exitUnavailable, whether the logger of the connection or main sees it;
\* no other failure ends it with that status.
C7_TimeoutExitsUnavailable ==
    pc = "exit" =>
        /\ err.kind = "timeout" => exitCode = exitUnavailable
        /\ exitCode = exitUnavailable => (err.kind = "timeout" \/ exitVia = "logger")

\* The search of statistic name returned and its count was recorded.
Searched(name) == name \in DOMAIN writers /\ name \in writers[name]

Min(a, b) == IF a < b THEN a ELSE b

\* C8: for a statistic k that sets Fetch and whose search returned n identifiers,
\* st[k] is n; the envelopes of exactly the first min(n, maxMailFetchCount)
\* identifiers are requested, none when n = 0; st[k+"_messages"] holds no more
\* than maxMailFetchCount letters; and one warning naming k, n and
\* maxMailFetchCount is logged if and only if n > maxMailFetchCount.
C8_FetchTruncation ==
    (k # NoName /\ k \in DOMAIN statsCfg /\ statsCfg[k].Fetch /\ Searched(k)
     /\ pc # "fetchMails") =>
        LET n == Len(ids)
            warned == {i \in 1..Len(warnings) : warnings[i].name = k}
        IN  /\ st[k] = IntStat(n)
            /\ n = 0 => k \notin DOMAIN fetched
            /\ n > 0 => /\ k \in DOMAIN fetched
                        /\ fetched[k] = {ids[i] : i \in 1..Min(n, maxMailFetchCount)}
            /\ Cardinality(warned) = (IF n > maxMailFetchCount THEN 1 ELSE 0)
            /\ \A i \in warned : warnings[i] = [name |-> k, found |-> n, fetch |-> maxMailFetchCount]
            /\ (messagesKey(k) \in DOMAIN writers /\ k \in writers[messagesKey(k)]) =>
                  /\ Len(st[messagesKey(k)].letters) <= maxMailFetchCount
                  /\ Len(st[messagesKey(k)].letters) <= n

\* More than maxMailFetchCount identifiers, found in descending order, and the
\* letters of the first maxMailFetchCount of them recorded.
C8_Witness ==
    /\ pc = "range"
    /\ k # NoName
    /\ statsCfg[k].Fetch
    /\ Len(ids) > maxMailFetchCount
    /\ ids[1] = Len(ids)
    /\ messagesKey(k) \in DOMAIN st
    /\ Len(st[messagesKey(k)].letters) = maxMailFetchCount
    /\ Len(warnings) = 1

\* C9, as claimed: once the connection is dialed (login is attempted only on a
\* dialed connection), every run that ends has attempted a logout.
C9_LogoutOnEveryExit ==
    (pc = "exit" /\ InLog("login")) => InLog("logout")

\* C9, amended: a run that ends has attempted a logout, as its last network
\* action, exactly when fetchStats had deferred c.Logout() (dial, login and
\* select succeeded) and the process was not ended by the timeout logger before
\* the deferred call ran.
C9_LogoutWhenDeferred ==
    pc = "exit" =>
        /\ InLog("logout") <=>
              (deferred /\ (exitVia # "logger" \/ netLog[Len(netLog)] = "logout"))
        /\ InLog("logout") => netLog[Len(netLog)] = "logout"

\* A search failed, the deferred logout ran, and main ended the process.
C9_Witness ==
    /\ pc = "exit"
    /\ deferred
    /\ err = OtherErr
    /\ exitVia = "fatal"
    /\ netLog[Len(netLog)] = "logout"
    /\ netLog[Len(netLog) - 1] = "search"

\* C10: no key of the stats map is assigned in the iterations of two different
\* statistics, so the result does not depend on the order of the iterations.
C10_OneWriterPerKey ==
    \A key \in DOMAIN writers : Cardinality(writers[key]) <= 1

====
